---- MODULE Spec2Model ----
(***************************************************************************)
(* Geometric validation, cropping and resampling of an image/mask pair in  *)
(* radiomics/imageoperations (checkMask, _correctMask, _checkROI,          *)
(* cropToTumorMask, resampleImage).                                        *)
(*                                                                         *)
(* A volume is a record [size, spacing, origin, direction, pixelID]; a     *)
(* mask also carries array, the set of voxel indices (0-based triples) of  *)
(* every label value.  Directions are diagonal (one sign per axis), so the *)
(* index <-> physical transforms act per axis.  Continuous indices and     *)
(* physical points are exact rationals <<numerator, denominator>> with a   *)
(* positive denominator; floating-point rounding is not modelled.          *)
(* Optional values (None in the source) are sequences: None is <<>> and a  *)
(* value x is <<x>>.                                                       *)
(***************************************************************************)
EXTENDS Integers, Sequences, FiniteSets, TLC

VARIABLES op,            \* the function called last
          imageNode,     \* its imageNode argument
          maskNode,      \* its maskNode argument
          kwargs,        \* its remaining arguments
          ret,           \* the tuple it returned
          raised,        \* TRUE when it ended in an uncaught exception
          log,           \* what it sent to logger.error / logger.warning
          roi,           \* what the _checkROI call inside it returned, if one ran
          resampleCalls  \* number of ResampleImageFilter.Execute calls it made

vars == <<op, imageNode, maskNode, kwargs, ret, raised, log, roi, resampleCalls>>

-----------------------------------------------------------------------------
(* Bounds of the input families *)

MaxLabel == 2    \* label values 1..MaxLabel
MaxLower == 2    \* the ROI's lower index is <<l,l,l>>, l in 0..MaxLower
MaxShift == 1    \* the mask origin is shifted by <<s,s,s>>, s in -MaxShift..MaxShift

-----------------------------------------------------------------------------
(* Values *)

Axes == 1..3

None == <<>>

Some(x) == <<x>>

Labels == 1..MaxLabel

SetMin(S) == CHOOSE x \in S : \A y \in S : x <= y

SetMax(S) == CHOOSE x \in S : \A y \in S : y <= x

(* exact rationals <<n, d>>, d > 0 *)
RLess(p, q) == p[1] * q[2] < q[1] * p[2]

RMin(p, q) == IF RLess(q, p) THEN q ELSE p

RMax(p, q) == IF RLess(p, q) THEN q ELSE p

(* pixel types: LabelStatisticsImageFilter takes a scalar image and an *)
(* integer label image *)
BasicPixelIDs == {"sitkFloat32", "sitkInt16"}

IntegerPixelIDs == {"sitkUInt8", "sitkInt16", "sitkInt32"}

GridIndices(size) == (0 .. size[1] - 1) \X (0 .. size[2] - 1) \X (0 .. size[3] - 1)

-----------------------------------------------------------------------------
(* SimpleITK primitives used by the module *)

(* image.TransformContinuousIndexToPhysicalPoint, one axis *)
TransformContinuousIndexToPhysicalPoint(node, a, c) ==
  <<node.origin[a] * c[2] + node.direction[a] * node.spacing[a] * c[1], c[2]>>

(* image.TransformPhysicalPointToContinuousIndex, one axis *)
TransformPhysicalPointToContinuousIndex(node, a, p) ==
  <<node.direction[a] * (p[1] - node.origin[a] * p[2]), p[2] * node.spacing[a]>>

(* filter.GetLabels(): the non-background values that occur in the mask *)
GetLabels(mask) == {l \in DOMAIN mask.array : mask.array[l] # {}}

(* LabelShapeStatisticsImageFilter.GetBoundingBox: (L_X, L_Y, L_Z, S_X, S_Y, S_Z) *)
ShapeBoundingBox(mask, label) ==
  LET vox == mask.array[label]
      L(a) == SetMin({v[a] : v \in vox})
      U(a) == SetMax({v[a] : v \in vox})
  IN  <<L(1), L(2), L(3), U(1) - L(1) + 1, U(2) - L(2) + 1, U(3) - L(3) + 1>>

-----------------------------------------------------------------------------
(* _checkROI *)

(* a tolerance of a whole voxel *)
tolerance_loose == <<1, 1>>

(* tolerance = 1e-3 *)
tolerance == <<1, 1000>>

(* the two corners of the bounding box on axis a, in the image's index space *)
ROIBounds(image, mask, bb, a) ==
  LET lo == <<2 * bb[a] - 1, 2>>
      hi == <<2 * (bb[a] + bb[3 + a]) - 1, 2>>
      toImage(c) == TransformPhysicalPointToContinuousIndex(image, a,
                      TransformContinuousIndexToPhysicalPoint(mask, a, c))
  IN  <<toImage(lo), toImage(hi)>>

(* OutsideImage without the test of the upper side *)
OutsideImage_lowerOnly(image, mask, bb) ==
  \E a \in Axes :
    LET b == ROIBounds(image, mask, bb, a)
    IN  RLess(RMin(b[1], b[2]),
              <<-(tolerance[2] + 2 * tolerance[1]), 2 * tolerance[2]>>)

(* numpy.any(min(ROIBounds) < -.5 - tolerance) or                          *)
(* numpy.any(max(ROIBounds) > size - .5 + tolerance)                       *)
OutsideImage(image, mask, bb) ==
  \/ \E a \in Axes :
       LET b == ROIBounds(image, mask, bb, a)
       IN  RLess(RMin(b[1], b[2]),
                 <<-(tolerance[2] + 2 * tolerance[1]), 2 * tolerance[2]>>)
  \/ \E a \in Axes :
       LET b == ROIBounds(image, mask, bb, a)
       IN  RLess(<<(2 * image.size[a] - 1) * tolerance[2] + 2 * tolerance[1],
                   2 * tolerance[2]>>,
                 RMax(b[1], b[2]))

(* _checkROI without the error report of the absent label *)
_checkROI_silent(image, mask, label) ==
  IF label \notin GetLabels(mask)
  THEN [bb |-> None, log |-> <<>>]
  ELSE LET bb == ShapeBoundingBox(mask, label)
       IN  IF OutsideImage(image, mask, bb)
           THEN [bb |-> None, log |-> <<"ROIOutOfBounds">>]
           ELSE [bb |-> Some(bb), log |-> <<>>]

_checkROI(image, mask, label) ==
  IF label \notin GetLabels(mask)
  THEN [bb |-> None, log |-> <<"LabelAbsent">>]
  ELSE LET bb == ShapeBoundingBox(mask, label)
       IN  IF OutsideImage(image, mask, bb)
           THEN [bb |-> None, log |-> <<"ROIOutOfBounds">>]
           ELSE [bb |-> Some(bb), log |-> <<>>]

-----------------------------------------------------------------------------
(* _correctMask *)

(* ResampleImageFilter with nearest-neighbour interpolation: the index of  *)
(* the source voxel read for output index i on axis a (the continuous      *)
(* index rounded half up), or -1 when the point lies outside the source    *)
(* buffer [-0.5, size - 0.5) and the default pixel value 0 is written      *)
NearestIndex(ref, src, a, i) ==
  LET c == TransformPhysicalPointToContinuousIndex(src, a,
             TransformContinuousIndexToPhysicalPoint(ref, a, <<i, 1>>))
      n == (2 * c[1] + c[2]) \div (2 * c[2])
  IN  IF n >= 0 /\ n <= src.size[a] - 1 THEN n ELSE -1

(* rif.SetReferenceImage(ref); rif.SetInterpolator(sitkNearestNeighbor);   *)
(* rif.Execute(mask): the reference grid, the mask's pixel type            *)
ResampleToReference(ref, mask) ==
  LET near == [a \in Axes |-> [i \in 0 .. ref.size[a] - 1 |-> NearestIndex(ref, mask, a, i)]]
      \* the output indices on axis a that read source index k
      pre(a, k) == {i \in 0 .. ref.size[a] - 1 : near[a][i] = k}
  IN  [size |-> ref.size, spacing |-> ref.spacing, origin |-> ref.origin,
       direction |-> ref.direction, pixelID |-> mask.pixelID,
       array |-> [l \in DOMAIN mask.array |->
                    UNION {pre(1, m[1]) \X pre(2, m[2]) \X pre(3, m[3]) : m \in mask.array[l]}]]

(* _correctMask that resamples whatever _checkROI returned *)
_correctMask_always(image, mask, label) ==
  LET r == _checkROI(image, mask, label)
  IN  [mask |-> Some(ResampleToReference(image, mask)), log |-> r.log,
       roi |-> r.bb, resampled |-> 1]

_correctMask(image, mask, label) ==
  LET r == _checkROI(image, mask, label)
  IN  IF r.bb = None
      THEN [mask |-> None, log |-> r.log, roi |-> r.bb, resampled |-> 0]
      ELSE [mask |-> Some(ResampleToReference(image, mask)), log |-> r.log,
            roi |-> r.bb, resampled |-> 1]

-----------------------------------------------------------------------------
(* checkMask *)

(* lsifExecute that accepts every pixel type *)
lsifExecute_anyType(image, mask) ==
  IF \/ image.origin # mask.origin
     \/ image.spacing # mask.spacing
     \/ image.direction # mask.direction
     \/ image.size # mask.size
  THEN "PhysicalSpace"
  ELSE "ok"

(* LabelStatisticsImageFilter.Execute(image, mask): "ok", or the           *)
(* RuntimeError it raises.  The pixel types are checked first, then the    *)
(* two grids must occupy the same physical space.                          *)
lsifExecute(image, mask) ==
  IF image.pixelID \notin BasicPixelIDs \/ mask.pixelID \notin IntegerPixelIDs
  THEN "TypeOrDimension"
  ELSE IF \/ image.origin # mask.origin
          \/ image.spacing # mask.spacing
          \/ image.direction # mask.direction
          \/ image.size # mask.size
       THEN "PhysicalSpace"
       ELSE "ok"

(* StatisticsBoundingBox with exclusive upper bounds *)
StatisticsBoundingBox_exclusive(mask, label) ==
  LET vox == mask.array[label]
      L(a) == SetMin({v[a] : v \in vox})
      U(a) == SetMax({v[a] : v \in vox})
  IN  <<L(1), U(1) + 1, L(2), U(2) + 1, L(3), U(3) + 1>>

(* LabelStatisticsImageFilter.GetBoundingBox: (L_X, U_X, L_Y, U_Y, L_Z, U_Z) *)
StatisticsBoundingBox(mask, label) ==
  LET vox == mask.array[label]
      L(a) == SetMin({v[a] : v \in vox})
      U(a) == SetMax({v[a] : v \in vox})
  IN  <<L(1), U(1), L(2), U(2), L(3), U(3)>>

(* LabelStatisticsImageFilter.GetCount *)
GetCount(mask, label) == Cardinality(mask.array[label])

(* ndims that counts the axes of size >= 1 *)
ndims_nonEmpty(boundingBox) ==
  Cardinality({a \in 1 .. (Len(boundingBox) \div 2) :
                 boundingBox[2 * a] - boundingBox[2 * a - 1] + 1 >= 1})

(* numpy.sum((boundingBox[1::2] - boundingBox[0::2] + 1) > 1) *)
ndims(boundingBox) ==
  Cardinality({a \in 1 .. (Len(boundingBox) \div 2) :
                 boundingBox[2 * a] - boundingBox[2 * a - 1] + 1 > 1})

(* roiTooSmall that accepts a count equal to the minimum *)
roiTooSmall_nonStrict(roiSize, minSize) == minSize # None /\ roiSize < minSize[1]

(* minSize is not None and roiSize <= minSize *)
roiTooSmall(roiSize, minSize) == minSize # None /\ roiSize <= minSize[1]

(* lines 259-275: the checks on the statistics of stat, the mask the last  *)
(* lsif.Execute ran on; the set of possible outcomes.  GetBoundingBox of a *)
(* label that is not in stat either raises or returns an empty box.        *)
checkBounds(stat, kw, correctedMask, logged, roiSeen, resampled) ==
  LET present == kw.label \in GetLabels(stat)
      boundingBox == IF present THEN StatisticsBoundingBox(stat, kw.label) ELSE <<>>
      out(lg) == [ret |-> <<Some(boundingBox), correctedMask>>, raised |-> FALSE,
                  log |-> logged \o lg, roi |-> roiSeen, resampleCalls |-> resampled]
      checked == IF ndims(boundingBox) <= kw.minimumROIDimensions
                 THEN out(<<"TooFewDimensions">>)
                 ELSE IF roiTooSmall(GetCount(stat, kw.label), kw.minimumROISize)
                      THEN out(<<"TooSmall">>)
                      ELSE out(<<>>)
  IN  IF present
      THEN {checked}
      ELSE {checked,
            [ret |-> None, raised |-> TRUE, log |-> logged, roi |-> roiSeen,
             resampleCalls |-> resampled]}

checkMask(image, mask, kw) ==
  LET first == lsifExecute(image, mask)
      fail(cm, lg, r, n) == {[ret |-> <<None, cm>>, raised |-> FALSE, log |-> lg, roi |-> r,
                              resampleCalls |-> n]}
  IN  IF first = "ok"
      THEN IF kw.label \notin GetLabels(mask)
           THEN fail(None, <<"LabelAbsent">>, None, 0)
           ELSE checkBounds(mask, kw, None, <<>>, None, 0)
      ELSE IF ~kw.correctMask
           THEN IF first = "TypeOrDimension"
                THEN fail(None, <<"DataMismatch">>, None, 0)
                ELSE fail(None, <<"GeometryMismatch">>, None, 0)
           ELSE LET c == _correctMask(image, mask, kw.label)
                    lg == <<"AttemptCorrection">> \o c.log
                IN  IF c.mask = None
                    THEN fail(None, lg \o <<"CorrectionFailed">>, Some(c.roi), 0)
                    ELSE IF lsifExecute(image, c.mask[1]) # "ok"
                         THEN fail(c.mask, lg \o <<"BoundingBoxFailed">>, Some(c.roi), 1)
                         ELSE checkBounds(c.mask[1], kw, c.mask, lg, Some(c.roi), 1)

-----------------------------------------------------------------------------
(* cropToTumorMask *)

(* sitk.Cast *)
Cast(node, pixelID) == [node EXCEPT !.pixelID = pixelID]

(* CropImageFilter.Execute: lower[a] voxels are removed at the low end of  *)
(* axis a and upper[a] at the high end; None stands for the RuntimeError   *)
(* of a crop that leaves nothing of the input                              *)
CropImage(node, lower, upper) ==
  IF \E a \in Axes : lower[a] + upper[a] >= node.size[a]
  THEN None
  ELSE LET grid == [size |-> [a \in Axes |-> node.size[a] - lower[a] - upper[a]],
                    spacing |-> node.spacing,
                    origin |-> [a \in Axes |-> node.origin[a]
                                  + node.direction[a] * node.spacing[a] * lower[a]],
                    direction |-> node.direction,
                    pixelID |-> node.pixelID]
           kept(v) == \A a \in Axes : v[a] >= lower[a] /\ v[a] <= node.size[a] - 1 - upper[a]
       IN  IF "array" \in DOMAIN node
           THEN grid @@ [array |->
                  [l \in DOMAIN node.array |->
                     {<<v[1] - lower[1], v[2] - lower[2], v[3] - lower[3]>> :
                        v \in {w \in node.array[l] : kept(w)}}]]
           ELSE grid

(* ijkMaxBounds with one voxel too few *)
ijkMaxBounds_short(size, boundingBox) == [a \in Axes |-> size[a] - boundingBox[2 * a]]

(* size - boundingBox[1::2] - 1 *)
ijkMaxBounds(size, boundingBox) == [a \in Axes |-> size[a] - boundingBox[2 * a] - 1]

cropToTumorMask(image, mask, boundingBox) ==
  LET oldMaskID == mask.pixelID
      lower == [a \in Axes |-> boundingBox[2 * a - 1]]
      upper == ijkMaxBounds(mask.size, boundingBox)
      croppedImageNode == CropImage(image, lower, upper)
      croppedMaskNode == CropImage(Cast(mask, "sitkInt32"), lower, upper)
  IN  IF croppedImageNode = None \/ croppedMaskNode = None
      THEN [ret |-> None, raised |-> TRUE]
      ELSE [ret |-> <<croppedImageNode, Cast(croppedMaskNode, oldMaskID)>>,
            raised |-> FALSE]

-----------------------------------------------------------------------------
(* resampleImage.  The spacings of the inputs are powers of two, so every  *)
(* product and quotient below is exact in floating point as well.  The     *)
(* volumes it returns are grids [size, spacing, origin, direction, pixelID, *)
(* interpolator] whose origin is a triple of rationals; their voxel values *)
(* are not modelled.                                                       *)

Floor(n, d) == n \div d

Ceil(n, d) == -((-n) \div d)

(* the members of sitk.InterpolatorEnum *)
InterpolatorEnums == {"sitkNearestNeighbor", "sitkLinear", "sitkBSpline", "sitkGaussian"}

(* the attributes of the sitk module: the enumerators and everything else  *)
(* the module defines, such as the class Image                             *)
SitkAttributes == InterpolatorEnums \cup {"Image", "ResampleImageFilter"}

(* the fast path that needs only one of the two spacings to match *)
spacingUnchanged_either(maskSpacing, imageSpacing, resampledPixelSpacing) ==
  maskSpacing = resampledPixelSpacing \/ imageSpacing = resampledPixelSpacing

(* numpy.array_equal(maskSpacing, resampledPixelSpacing) and               *)
(* numpy.array_equal(imageSpacing, resampledPixelSpacing)                  *)
spacingUnchanged(maskSpacing, imageSpacing, resampledPixelSpacing) ==
  maskSpacing = resampledPixelSpacing /\ imageSpacing = resampledPixelSpacing

(* the requested spacing on every axis *)
overrideSpacing_never(bb, resampledPixelSpacing, maskSpacing) == resampledPixelSpacing

(* numpy.where(bb[3:] != 1, resampledPixelSpacing, maskSpacing) *)
overrideSpacing(bb, resampledPixelSpacing, maskSpacing) ==
  [a \in Axes |-> IF bb[3 + a] # 1 THEN resampledPixelSpacing[a] ELSE maskSpacing[a]]

(* bbNewLBound without the clamp at 0 and with the padding added *)
bbNewLBound_padAdded(bb, a, ms, rs, padDistance) ==
  Floor((2 * bb[a] - 1) * ms + 2 * rs * padDistance, 2 * rs)

(* floor((bb[:3] - 0.5) * spacingRatio - padDistance), at least 0;         *)
(* spacingRatio = ms / rs                                                  *)
bbNewLBound(bb, a, ms, rs, padDistance) ==
  LET l == Floor((2 * bb[a] - 1) * ms - 2 * rs * padDistance, 2 * rs)
  IN  IF l < 0 THEN 0 ELSE l

(* bbNewUBound with the padding subtracted *)
bbNewUBound_padSubtracted(bb, a, maskSize, ms, rs, padDistance) ==
  LET u == Ceil((2 * (bb[a] + bb[3 + a]) - 1) * ms - 2 * rs * padDistance, 2 * rs)
      maxUbound == Ceil(maskSize * ms, rs) - 1
  IN  IF u > maxUbound THEN maxUbound ELSE u

(* ceil((bb[:3] + bb[3:] - 0.5) * spacingRatio + padDistance), at most     *)
(* maxUbound = ceil(maskSize * spacingRatio) - 1                           *)
bbNewUBound(bb, a, maskSize, ms, rs, padDistance) ==
  LET u == Ceil((2 * (bb[a] + bb[3 + a]) - 1) * ms + 2 * rs * padDistance, 2 * rs)
      maxUbound == Ceil(maskSize * ms, rs) - 1
  IN  IF u > maxUbound THEN maxUbound ELSE u

(* newOriginIndex + bbOriginalLBound: the continuous index, in the mask,   *)
(* of the centre of voxel 0 of the new grid                                *)
newCroppedOriginIndex(lBound, ms, rs) == <<rs - ms + 2 * lBound * rs, 2 * ms>>

(* the direction of the image instead of the mask's *)
outputDirection_image(image, mask) == image.direction

(* direction = numpy.array(maskNode.GetDirection()) *)
outputDirection(image, mask) == mask.direction

(* lines 499-504: getattr(sitk, interpolator) for a string, sitkBSpline    *)
(* and a warning when getattr raises                                       *)
resolveInterpolator(interpolator) ==
  IF interpolator.isString /\ interpolator.value \notin SitkAttributes
  THEN [value |-> "sitkBSpline", log |-> <<"InterpolatorNotRecognized">>]
  ELSE [value |-> interpolator.value, log |-> <<>>]

resampleImage(image, mask, kw) ==
  LET out(r, ra, lg, ro, n) == [ret |-> r, raised |-> ra, log |-> lg, roi |-> ro,
                                resampleCalls |-> n]
  IN  IF image = None \/ mask = None
      THEN out(<<None, None>>, FALSE, <<>>, None, 0)
      ELSE IF spacingUnchanged(mask.spacing, image.spacing, kw.resampledPixelSpacing)
      THEN out(<<image, mask>>, FALSE, <<>>, None, 0)
      ELSE
        LET c == _checkROI(image, mask, kw.label)
        IN  IF c.bb = None
            THEN out(<<None, None>>, FALSE, c.log, Some(c.bb), 0)
            ELSE
              LET bb == c.bb[1]
                  rs == overrideSpacing(bb, kw.resampledPixelSpacing, mask.spacing)
                  lBound == [a \in Axes |->
                               bbNewLBound(bb, a, mask.spacing[a], rs[a], kw.padDistance)]
                  uBound == [a \in Axes |->
                               bbNewUBound(bb, a, mask.size[a], mask.spacing[a], rs[a],
                                           kw.padDistance)]
                  newSize == [a \in Axes |-> uBound[a] - lBound[a] + 1]
                  newOrigin == [a \in Axes |->
                                  TransformContinuousIndexToPhysicalPoint(mask, a,
                                    newCroppedOriginIndex(lBound[a], mask.spacing[a], rs[a]))]
                  interp == resolveInterpolator(kw.interpolator)
                  grid(node, i) == [size |-> newSize, spacing |-> rs, origin |-> newOrigin,
                                    direction |-> outputDirection(image, mask),
                                    pixelID |-> node.pixelID, interpolator |-> i]
              IN  IF \E a \in Axes : newSize[a] < 1
                  THEN \* rif.SetSize refuses the size
                       out(None, TRUE, c.log \o interp.log, Some(c.bb), 0)
                  ELSE IF interp.value \notin InterpolatorEnums
                  THEN \* rif.SetInterpolator raises TypeError
                       out(None, TRUE, c.log \o interp.log, Some(c.bb), 0)
                  ELSE out(<<grid(image, interp.value), grid(mask, "sitkNearestNeighbor")>>,
                           FALSE, c.log \o interp.log, Some(c.bb), 2)

-----------------------------------------------------------------------------
(* Input families *)

RefImage ==
  [size |-> <<10, 10, 10>>, spacing |-> <<1, 1, 1>>, origin |-> <<0, 0, 0>>,
   direction |-> <<1, 1, 1>>, pixelID |-> "sitkFloat32"]

CoarseImage ==
  [size |-> <<5, 5, 5>>, spacing |-> <<2, 2, 2>>, origin |-> <<0, 0, 0>>,
   direction |-> <<1, 1, 1>>, pixelID |-> "sitkFloat32"]

Images ==
  {RefImage, CoarseImage, [RefImage EXCEPT !.pixelID = "sitkVectorFloat32"]}

(* mask grids: the reference grid, the reference grid with a shifted      *)
(* origin (by a voxel or two, or far away), a coarser grid, and the       *)
(* reference grid with the first axis reversed.  Grids of different size  *)
(* always differ in spacing.                                               *)
MaskGrids ==
  {[size |-> RefImage.size, spacing |-> RefImage.spacing, origin |-> <<s, s, s>>,
    direction |-> <<1, 1, 1>>] : s \in (-MaxShift .. MaxShift) \cup {100}}
  \cup {[size |-> <<5, 5, 5>>, spacing |-> <<2, 2, 2>>, origin |-> <<0, 0, 0>>,
         direction |-> <<1, 1, 1>>],
        [size |-> RefImage.size, spacing |-> RefImage.spacing,
         origin |-> <<RefImage.size[1] - 1, 0, 0>>, direction |-> <<-1, 1, 1>>]}

Shapes == {<<4, 4, 4>>, <<5, 1, 1>>, <<5, 3, 1>>, <<1, 1, 1>>, <<1, 2, 2>>}

Box(lower, extent) ==
  {v \in (lower[1] .. lower[1] + extent[1] - 1) \X (lower[2] .. lower[2] + extent[2] - 1)
         \X (lower[3] .. lower[3] + extent[3] - 1) : TRUE}

(* a box, or a box without the voxels that touch none of its faces *)
Region(lower, extent, hollow) ==
  IF hollow
  THEN Box(lower, extent)
         \ Box(<<lower[1] + 1, lower[2] + 1, lower[3] + 1>>,
               <<extent[1] - 2, extent[2] - 2, extent[3] - 2>>)
  ELSE Box(lower, extent)

(* masks that hold one region, with label value 1 *)
Masks ==
  {[size |-> g.size, spacing |-> g.spacing, origin |-> g.origin,
    direction |-> g.direction, pixelID |-> "sitkUInt8",
    array |-> [l \in Labels |-> IF l = 1 THEN Region(<<lo, lo, lo>>, e, h) ELSE {}]] :
     <<g, lo, e, h>> \in
       {x \in MaskGrids \X (0 .. MaxLower) \X Shapes \X BOOLEAN :
          /\ \A a \in Axes : x[2] + x[3][a] <= x[1].size[a]
          /\ x[4] => \A a \in Axes : x[3][a] >= 3}}

-----------------------------------------------------------------------------
(* State machine.  Every function of the module is a stateless call: Init  *)
(* draws the arguments of one call, the action of the function named by    *)
(* kwargs.call applies it and records the outcome.                         *)

CheckROIArgs == {[call |-> "_checkROI", label |-> l] : l \in Labels}

MinimumROISizes == {None, Some(10), Some(56), Some(64)}

CheckMaskArgs ==
  {[call |-> "checkMask", label |-> l, minimumROIDimensions |-> d,
    minimumROISize |-> n, correctMask |-> c] :
     l \in Labels, d \in 1 .. 3, n \in MinimumROISizes, c \in BOOLEAN}

(* the warnings are the other entries of log *)
Errors ==
  {"LabelAbsent", "ROIOutOfBounds", "DataMismatch", "GeometryMismatch",
   "CorrectionFailed", "BoundingBoxFailed", "TooFewDimensions", "TooSmall"}

Init ==
  /\ op = "none"
  /\ imageNode \in Images
  /\ maskNode \in Masks
  /\ kwargs \in CheckROIArgs \cup CheckMaskArgs
  /\ ret = None
  /\ raised = FALSE
  /\ log = <<>>
  /\ roi = None
  /\ resampleCalls = 0

CheckROI ==
  /\ op = "none"
  /\ kwargs.call = "_checkROI"
  /\ LET r == _checkROI(imageNode, maskNode, kwargs.label)
     IN  /\ ret' = r.bb
         /\ log' = r.log
         /\ roi' = Some(r.bb)
  /\ op' = "_checkROI"
  /\ raised' = FALSE
  /\ resampleCalls' = 0
  /\ UNCHANGED <<imageNode, maskNode, kwargs>>

CheckMask ==
  /\ op = "none"
  /\ kwargs.call = "checkMask"
  /\ \E r \in checkMask(imageNode, maskNode, kwargs) :
       /\ ret' = r.ret
       /\ raised' = r.raised
       /\ log' = r.log
       /\ roi' = r.roi
       /\ resampleCalls' = r.resampleCalls
  /\ op' = "checkMask"
  /\ UNCHANGED <<imageNode, maskNode, kwargs>>

Next == CheckROI \/ CheckMask

Spec == Init /\ [][Next]_vars

-----------------------------------------------------------------------------
(* Cropping and resampling: the calls of cropToTumorMask and resampleImage, *)
(* with their own arguments                                                 *)

TurnedImage ==
  [RefImage EXCEPT !.direction = <<1, -1, 1>>, !.origin = <<0, RefImage.size[2] - 1, 0>>]

ResampleImages == {RefImage, CoarseImage, TurnedImage}

(* the reference grid, the same far away, grids of 9, 5 and 3 voxels of    *)
(* spacing 1, 2 and 4, and the reference grid with the first axis reversed *)
ResampleGrids ==
  {[size |-> RefImage.size, spacing |-> RefImage.spacing, origin |-> <<0, 0, 0>>,
    direction |-> <<1, 1, 1>>],
   [size |-> RefImage.size, spacing |-> RefImage.spacing, origin |-> <<100, 100, 100>>,
    direction |-> <<1, 1, 1>>],
   [size |-> <<9, 9, 9>>, spacing |-> <<1, 1, 1>>, origin |-> <<0, 0, 0>>,
    direction |-> <<1, 1, 1>>],
   [size |-> <<5, 5, 5>>, spacing |-> <<2, 2, 2>>, origin |-> <<1, 1, 1>>,
    direction |-> <<1, 1, 1>>],
   [size |-> <<3, 3, 3>>, spacing |-> <<4, 4, 4>>, origin |-> <<2, 2, 2>>,
    direction |-> <<1, 1, 1>>],
   [size |-> RefImage.size, spacing |-> RefImage.spacing,
    origin |-> <<RefImage.size[1] - 1, 0, 0>>, direction |-> <<-1, 1, 1>>]}

ResampleShapes == Shapes \cup {<<2, 2, 2>>}

ResampleMasks ==
  {[size |-> g.size, spacing |-> g.spacing, origin |-> g.origin,
    direction |-> g.direction, pixelID |-> "sitkUInt8",
    array |-> [l \in Labels |-> IF l = 1 THEN Box(<<lo, lo, lo>>, e) ELSE {}]] :
     <<g, lo, e>> \in
       {x \in ResampleGrids \X (0 .. MaxLower) \X ResampleShapes :
          \A a \in Axes : x[2] + x[3][a] <= x[1].size[a]}}

(* the bounding box of label 1 as checkMask returns it, and the whole grid *)
CropArgs(mask) ==
  {[call |-> "cropToTumorMask", label |-> 1, boundingBox |-> bb] :
     bb \in {StatisticsBoundingBox(mask, 1),
             <<0, mask.size[1] - 1, 0, mask.size[2] - 1, 0, mask.size[3] - 1>>}}

InitCrop ==
  /\ op = "none"
  /\ imageNode \in ResampleImages
  /\ maskNode \in ResampleMasks
  /\ kwargs \in CropArgs(maskNode)
  /\ ret = None
  /\ raised = FALSE
  /\ log = <<>>
  /\ roi = None
  /\ resampleCalls = 0

CropToTumorMask ==
  /\ op = "none"
  /\ kwargs.call = "cropToTumorMask"
  /\ LET r == cropToTumorMask(imageNode, maskNode, kwargs.boundingBox)
     IN  /\ ret' = r.ret
         /\ raised' = r.raised
  /\ op' = "cropToTumorMask"
  /\ UNCHANGED <<imageNode, maskNode, kwargs, log, roi, resampleCalls>>

NextCrop == CropToTumorMask

SpecCrop == InitCrop /\ [][NextCrop]_vars

-----------------------------------------------------------------------------
(* The calls of resampleImage *)

MaxPad == 2    \* padDistance in 0..MaxPad

TargetSpacings == {<<1, 1, 1>>, <<2, 2, 2>>, <<4, 4, 4>>, <<1, 2, 4>>}

(* the default argument, sitk.sitkBSpline *)
DefaultInterpolator == [isString |-> FALSE, value |-> "sitkBSpline"]

InterpolatorNames ==
  {[isString |-> TRUE, value |-> n] : n \in {"sitkLinear", "noSuchName", "Image"}}

ResampleArgs ==
  {[call |-> "resampleImage", resampledPixelSpacing |-> t, interpolator |-> DefaultInterpolator,
    label |-> l, padDistance |-> p] :
     t \in TargetSpacings, l \in Labels, p \in 0 .. MaxPad}
  \cup
  {[call |-> "resampleImage", resampledPixelSpacing |-> t, interpolator |-> i,
    label |-> 1, padDistance |-> 0] :
     t \in TargetSpacings, i \in InterpolatorNames}

InitResample ==
  /\ op = "none"
  /\ \/ imageNode \in ResampleImages /\ maskNode \in ResampleMasks
     \/ imageNode = None /\ maskNode \in {m \in ResampleMasks : m.size = RefImage.size}
     \/ imageNode \in ResampleImages /\ maskNode = None
  /\ kwargs \in ResampleArgs
  /\ ret = None
  /\ raised = FALSE
  /\ log = <<>>
  /\ roi = None
  /\ resampleCalls = 0

ResampleImage ==
  /\ op = "none"
  /\ kwargs.call = "resampleImage"
  /\ LET r == resampleImage(imageNode, maskNode, kwargs)
     IN  /\ ret' = r.ret
         /\ raised' = r.raised
         /\ log' = r.log
         /\ roi' = r.roi
         /\ resampleCalls' = r.resampleCalls
  /\ op' = "resampleImage"
  /\ UNCHANGED <<imageNode, maskNode, kwargs>>

NextResample == ResampleImage

SpecResample == InitResample /\ [][NextResample]_vars

-----------------------------------------------------------------------------
(* Vocabulary of the properties, stated on the arguments and the outcome   *)
(* of the call and not through the operators above                         *)

Logged(t) == \E i \in 1 .. Len(log) : log[i] = t

Reported == \E i \in 1 .. Len(log) : log[i] \in Errors

Returned(f) == op = f /\ ~raised

(* the voxels of the requested label in mask m *)
Voxels(m) == m.array[kwargs.label]

Proj(vox, a) == {v[a] : v \in vox}

Lo(vox, a) == CHOOSE x \in Proj(vox, a) : \A y \in Proj(vox, a) : x <= y

(* the regions of the input family have no gap along an axis *)
Ext(vox, a) == Cardinality(Proj(vox, a))

(* number of axes on which the region is more than one voxel wide *)
Dimensionality(vox) == Cardinality({a \in Axes : Ext(vox, a) > 1})

SharedGeometry ==
  /\ imageNode.size = maskNode.size
  /\ imageNode.spacing = maskNode.spacing
  /\ imageNode.origin = maskNode.origin
  /\ imageNode.direction = maskNode.direction

(* 2000 * s * (image index of the mask's continuous index x2 / 2 on axis   *)
(* a), s the image spacing on a                                            *)
Corner(a, x2) ==
  1000 * imageNode.direction[a]
       * (2 * (maskNode.origin[a] - imageNode.origin[a])
            + maskNode.direction[a] * maskNode.spacing[a] * x2)

(* the corner lies outside [-0.5 - 1e-3, size - 0.5 + 1e-3] *)
CornerOut(a, x2) ==
  \/ Corner(a, x2) < -1002 * imageNode.spacing[a]
  \/ Corner(a, x2) > (2000 * imageNode.size[a] - 998) * imageNode.spacing[a]

(* some corner (lower - 0.5 or lower + extent - 0.5) of the region of the  *)
(* input mask is out of the image on some axis                             *)
ROIOutside ==
  \E a \in Axes :
    \/ CornerOut(a, 2 * Lo(Voxels(maskNode), a) - 1)
    \/ CornerOut(a, 2 * (Lo(Voxels(maskNode), a) + Ext(Voxels(maskNode), a)) - 1)

(* the mask whose statistics checkMask read: the corrected mask if there   *)
(* is one, the input mask otherwise                                        *)
StatMask == IF ret[2] # None THEN ret[2][1] ELSE maskNode

(* checkMask got as far as the dimension check (boundingBox is assigned) *)
ReachedChecks == Returned("checkMask") /\ ret[1] # None

-----------------------------------------------------------------------------
(* C1: whenever checkMask reports an error, the bounding box it returns is *)
(* None, also when the failing check is the minimum-dimensions or the      *)
(* minimum-size check.                                                     *)
C1_ErrorGivesNullBox ==
  (Returned("checkMask") /\ Reported) => ret[1] = None

C3_OutOfBoundsNotResampled ==
  (/\ op = "checkMask"
   /\ ~SharedGeometry
   /\ kwargs.correctMask
   /\ Voxels(maskNode) # {}
   /\ ROIOutside) =>
     /\ ~raised
     /\ roi = Some(None)
     /\ Logged("ROIOutOfBounds")
     /\ resampleCalls = 0
     /\ ret = <<None, None>>

C3_Witness ==
  /\ op = "checkMask"
  /\ imageNode = RefImage
  /\ maskNode.origin = <<100, 100, 100>>
  /\ kwargs.correctMask
  /\ Voxels(maskNode) # {}
  /\ ROIOutside
  /\ ret = <<None, None>>

(* C4 as stated: a first statistics attempt that fails on incompatible     *)
(* shape/type is always fatal, (None, None) whatever correctMask is, and   *)
(* no correction is attempted.                                             *)
C4_TypeMismatchAlwaysFatal ==
  (op = "checkMask" /\ imageNode.pixelID \notin BasicPixelIDs) =>
     /\ ~raised
     /\ ret = <<None, None>>
     /\ roi = None
     /\ resampleCalls = 0

(* C4 amended: a first statistics attempt that fails on incompatible       *)
(* shape/type is reported and gives (None, None) without any correction    *)
(* when correctMask is disabled; when correctMask is enabled the           *)
(* correction is attempted for this failure as for a geometry mismatch.    *)
C4_TypeMismatchFatalUnlessCorrect ==
  (op = "checkMask" /\ imageNode.pixelID \notin BasicPixelIDs) =>
     /\ ~kwargs.correctMask =>
          /\ ~raised
          /\ ret = <<None, None>>
          /\ Logged("DataMismatch")
          /\ roi = None
          /\ resampleCalls = 0
     /\ kwargs.correctMask =>
          /\ Logged("AttemptCorrection")
          /\ roi # None

C4_Witness ==
  /\ op = "checkMask"
  /\ imageNode.pixelID \notin BasicPixelIDs
  /\ kwargs.correctMask
  /\ resampleCalls = 1

(* C5: when the correction succeeds and the statistics on the corrected    *)
(* mask fail, checkMask returns (None, None).                              *)
C5_RecomputeFailureGivesNullPair ==
  (op = "checkMask" /\ Logged("BoundingBoxFailed")) => ret = <<None, None>>

(* C6: _checkROI returns None exactly when the label is absent or one of   *)
(* the two corners of the ROI, taken to the image's index space, lies      *)
(* outside [-0.5 - 1e-3, size - 0.5 + 1e-3] on some axis; otherwise it     *)
(* returns (lower, extent) in the mask's index space.                      *)
C6_CheckROI ==
  op = "_checkROI" =>
    LET vox == Voxels(maskNode)
    IN  /\ ret = None <=> (vox = {} \/ ROIOutside)
        /\ ret # None =>
             ret = Some(<<Lo(vox, 1), Lo(vox, 2), Lo(vox, 3),
                          Ext(vox, 1), Ext(vox, 2), Ext(vox, 3)>>)

C6_Witness ==
  /\ op = "_checkROI"
  /\ ~SharedGeometry
  /\ Voxels(maskNode) # {}
  /\ ~ROIOutside
  /\ imageNode.spacing # maskNode.spacing
  /\ ret # None

C8_MinimumDimensionsAccepted ==
  (ReachedChecks /\ Dimensionality(Voxels(StatMask)) >= kwargs.minimumROIDimensions)
    => ~Logged("TooFewDimensions")

C10_LowerThenExtent ==
  (Returned("checkMask") /\ SharedGeometry /\ ~Reported) =>
    LET vox == Voxels(maskNode)
    IN  ret = <<Some(<<Lo(vox, 1), Lo(vox, 2), Lo(vox, 3),
                       Ext(vox, 1), Ext(vox, 2), Ext(vox, 3)>>), None>>

(* C10 amended: with shared geometry and every check passed, checkMask     *)
(* returns the box as (lower, upper) index pairs per axis, upper = lower + *)
(* extent - 1, and no corrected mask; the corrected mask is not None only  *)
(* if the correction step ran.                                             *)
C10_LowerUpperPairs ==
  /\ (Returned("checkMask") /\ SharedGeometry /\ ~Reported) =>
       LET vox == Voxels(maskNode)
       IN  ret = <<Some(<<Lo(vox, 1), Lo(vox, 1) + Ext(vox, 1) - 1,
                          Lo(vox, 2), Lo(vox, 2) + Ext(vox, 2) - 1,
                          Lo(vox, 3), Lo(vox, 3) + Ext(vox, 3) - 1>>), None>>
  /\ (Returned("checkMask") /\ ret[2] # None) =>
       resampleCalls = 1 /\ Logged("AttemptCorrection")

C10_Witness ==
  /\ Returned("checkMask")
  /\ imageNode = RefImage
  /\ SharedGeometry
  /\ kwargs.label = 1
  /\ kwargs.minimumROIDimensions = 1
  /\ kwargs.minimumROISize = Some(10)
  /\ Cardinality(Voxels(maskNode)) = 64
  /\ ret = <<Some(<<2, 5, 2, 5, 2, 5>>), None>>

(* the box [lower, upper] given to cropToTumorMask *)
CropLower(a) == kwargs.boundingBox[2 * a - 1]

CropUpper(a) == kwargs.boundingBox[2 * a]

(* C11 as stated: for every image/mask pair and every valid bounding box   *)
(* cropToTumorMask returns an image and a mask of size upper - lower + 1   *)
(* on every axis.                                                          *)
C11_CropSizeAnyPair ==
  op = "cropToTumorMask" =>
    /\ ~raised
    /\ \A a \in Axes : /\ ret[1].size[a] = CropUpper(a) - CropLower(a) + 1
                       /\ ret[2].size[a] = CropUpper(a) - CropLower(a) + 1

(* C11 amended: for an image and a mask of the same grid size and every    *)
(* valid bounding box, both outputs have size upper - lower + 1 on every   *)
(* axis; the margins cut are lower on the low side and gridSize - upper - 1 *)
(* on the high side, so the cropped mask holds exactly the voxels of the   *)
(* box, re-indexed from its lower corner.                                  *)
C11_CropSizeSameGrid ==
  (op = "cropToTumorMask" /\ imageNode.size = maskNode.size) =>
    /\ ~raised
    /\ \A a \in Axes : /\ ret[1].size[a] = CropUpper(a) - CropLower(a) + 1
                       /\ ret[2].size[a] = CropUpper(a) - CropLower(a) + 1
    /\ \A v \in GridIndices(ret[2].size) :
         v \in ret[2].array[1]
           <=> <<v[1] + CropLower(1), v[2] + CropLower(2), v[3] + CropLower(3)>>
                 \in maskNode.array[1]
    /\ ret[2].array[1] \subseteq GridIndices(ret[2].size)

C11_Witness ==
  /\ Returned("cropToTumorMask")
  /\ imageNode.size = maskNode.size
  /\ kwargs.boundingBox = <<2, 5, 2, 5, 2, 5>>
  /\ ret[1].size = <<4, 4, 4>>
  /\ ret[2].size = <<4, 4, 4>>

-----------------------------------------------------------------------------
(* Vocabulary of the properties of resampleImage *)

NonNullInputs == op = "resampleImage" /\ imageNode # None /\ maskNode # None

ResamplingRequired ==
  \/ imageNode.spacing # kwargs.resampledPixelSpacing
  \/ maskNode.spacing # kwargs.resampledPixelSpacing

ROIInvalid == Voxels(maskNode) = {} \/ ROIOutside

NullPair == ret = <<None, None>>

(* both volumes were resampled and returned *)
Resampled == NonNullInputs /\ ~raised /\ resampleCalls = 2

(* C12: given non-null inputs, resampleImage returns (None, None) exactly  *)
(* when resampling is required (the image's or the mask's spacing differs  *)
(* from the target) and the ROI is invalid; when it is returned nothing    *)
(* has been resampled.                                                     *)
C12_NullPairIffInvalidROI ==
  NonNullInputs =>
    /\ NullPair <=> (ResamplingRequired /\ ROIInvalid)
    /\ NullPair => (~raised /\ resampleCalls = 0)

C12_Witness ==
  /\ NonNullInputs
  /\ ResamplingRequired
  /\ Voxels(maskNode) # {}
  /\ ROIOutside
  /\ NullPair
  /\ resampleCalls = 0

FastPath == ret = <<imageNode, maskNode>> /\ resampleCalls = 0

(* C13: resampleImage returns its own inputs, untouched, if and only if    *)
(* both the image's and the mask's spacing equal the target spacing; if    *)
(* only one of the two matches, the ROI is checked and resampling goes on. *)
C13_FastPathIffBothMatch ==
  NonNullInputs =>
    /\ FastPath <=> ~ResamplingRequired
    /\ ResamplingRequired => roi # None
    /\ (ResamplingRequired /\ ~ROIInvalid /\ ~raised) => resampleCalls = 2

C13_Witness ==
  /\ NonNullInputs
  /\ maskNode.spacing = kwargs.resampledPixelSpacing
  /\ imageNode.spacing # kwargs.resampledPixelSpacing
  /\ ~FastPath
  /\ resampleCalls = 2

(* the low and the high edge of the returned grid on axis a, as continuous *)
(* indices of the input mask (the grid has the mask's direction): the      *)
(* origin is the centre of the first voxel, the edges lie half a new voxel *)
(* before it and size - 1/2 new voxels after it                            *)
NewGridLowEdge(a) ==
  LET o == ret[2].origin[a]
  IN  <<2 * maskNode.direction[a] * (o[1] - maskNode.origin[a] * o[2])
          - ret[2].spacing[a] * o[2],
        2 * maskNode.spacing[a] * o[2]>>

NewGridHighEdge(a) ==
  LET o == ret[2].origin[a]
  IN  <<2 * maskNode.direction[a] * (o[1] - maskNode.origin[a] * o[2])
          + (2 * ret[2].size[a] - 1) * ret[2].spacing[a] * o[2],
        2 * maskNode.spacing[a] * o[2]>>

(* C14: for every valid ROI, every spacing ratio and every padDistance     *)
(* >= 0, the grid computed by resampleImage contains the whole bounding    *)
(* box of the ROI, from lower - 0.5 to lower + extent - 0.5 in mask index  *)
(* space, on every axis.                                                   *)
C14_GridContainsROI ==
  Resampled =>
    \A a \in Axes :
      LET lower == Lo(Voxels(maskNode), a)
          extent == Ext(Voxels(maskNode), a)
      IN  /\ ~RLess(<<2 * lower - 1, 2>>, NewGridLowEdge(a))
          /\ ~RLess(NewGridHighEdge(a), <<2 * (lower + extent) - 1, 2>>)

(* the centres of the first and of the last voxel of the returned grid on  *)
(* axis a, as continuous indices of the input mask: the points at which    *)
(* the resampling reads the inputs                                         *)
NewGridFirstCentre(a) ==
  LET o == ret[2].origin[a]
  IN  <<maskNode.direction[a] * (o[1] - maskNode.origin[a] * o[2]),
        maskNode.spacing[a] * o[2]>>

NewGridLastCentre(a) ==
  LET o == ret[2].origin[a]
  IN  <<maskNode.direction[a] * (o[1] - maskNode.origin[a] * o[2])
          + (ret[2].size[a] - 1) * ret[2].spacing[a] * o[2],
        maskNode.spacing[a] * o[2]>>

(* C15: after the clamping, every voxel of the grid produced by            *)
(* resampleImage lies within the extent [-0.5, maskSize - 0.5] of the      *)
(* input mask, in mask index space, on every axis, for every mask size,    *)
(* spacing ratio and padDistance.                                          *)
C15_GridInsideMask ==
  Resampled =>
    \A a \in Axes :
      /\ ~RLess(NewGridFirstCentre(a), <<-1, 2>>)
      /\ ~RLess(<<2 * maskNode.size[a] - 1, 2>>, NewGridLastCentre(a))

(* the target spacing after the override of the flat axes *)
EffectiveTarget(a) ==
  IF Ext(Voxels(maskNode), a) = 1 THEN maskNode.spacing[a]
  ELSE kwargs.resampledPixelSpacing[a]

(* floor and ceiling of the rational q, by their defining inequalities *)
FloorOf(q) == CHOOSE k \in -64 .. 64 : k * q[2] <= q[1] /\ q[1] < (k + 1) * q[2]

CeilOf(q) == CHOOSE k \in -64 .. 64 : (k - 1) * q[2] < q[1] /\ q[1] <= k * q[2]

(* (x2 / 2) * ratio + pad with ratio = maskSpacing / targetSpacing on axis a *)
Scaled(a, x2, pad) ==
  <<x2 * maskNode.spacing[a] + 2 * pad * EffectiveTarget(a), 2 * EffectiveTarget(a)>>

NewLower(a) ==
  SetMax({0, FloorOf(Scaled(a, 2 * Lo(Voxels(maskNode), a) - 1, -kwargs.padDistance))})

NewUpper(a) ==
  SetMin({CeilOf(<<maskNode.size[a] * maskNode.spacing[a], EffectiveTarget(a)>>) - 1,
          CeilOf(Scaled(a, 2 * (Lo(Voxels(maskNode), a) + Ext(Voxels(maskNode), a)) - 1,
                        kwargs.padDistance))})

(* C16: on every axis the size of the grid produced by resampleImage is    *)
(* newUpper - newLower + 1 with                                            *)
(*   newLower = max(0, floor((lower - 0.5) * ratio - padDistance)),        *)
(*   newUpper = min(ceil(maskSize * ratio) - 1,                            *)
(*                  ceil((lower + extent - 0.5) * ratio + padDistance)),   *)
(*   ratio = maskSpacing / targetSpacing;                                  *)
(* from spacing 1 to 2 with padDistance 0, lower 2 and extent 4 this is    *)
(* ceil(5.5 * 0.5) - floor(1.5 * 0.5) + 1 = 4.                             *)
C16_NewSize ==
  Resampled =>
    /\ \A a \in Axes : /\ ret[1].size[a] = NewUpper(a) - NewLower(a) + 1
                       /\ ret[2].size[a] = NewUpper(a) - NewLower(a) + 1
    /\ ( /\ maskNode.spacing = <<1, 1, 1>>
         /\ kwargs.resampledPixelSpacing = <<2, 2, 2>>
         /\ kwargs.padDistance = 0
         /\ \A a \in Axes : Lo(Voxels(maskNode), a) = 2 /\ Ext(Voxels(maskNode), a) = 4 )
       => ret[2].size = <<4, 4, 4>>

C16_Witness ==
  /\ Resampled
  /\ maskNode.spacing = <<1, 1, 1>>
  /\ kwargs.resampledPixelSpacing = <<2, 2, 2>>
  /\ kwargs.padDistance = 0
  /\ \A a \in Axes : Lo(Voxels(maskNode), a) = 2 /\ Ext(Voxels(maskNode), a) = 4
  /\ ret[1].size = <<4, 4, 4>>
  /\ ret[2].size = <<4, 4, 4>>

(* C17: on every axis on which the ROI is exactly one voxel wide, the      *)
(* spacing of the outputs of resampleImage is the mask's original spacing  *)
(* whatever target was requested; on every axis on which it is wider, the  *)
(* requested target spacing is used.                                       *)
C17_FlatAxesKeepSpacing ==
  Resampled =>
    \A a \in Axes :
      /\ Ext(Voxels(maskNode), a) = 1
           => /\ ret[1].spacing[a] = maskNode.spacing[a]
              /\ ret[2].spacing[a] = maskNode.spacing[a]
      /\ Ext(Voxels(maskNode), a) > 1
           => /\ ret[1].spacing[a] = kwargs.resampledPixelSpacing[a]
              /\ ret[2].spacing[a] = kwargs.resampledPixelSpacing[a]

C17_Witness ==
  /\ Resampled
  /\ \E a \in Axes : /\ Ext(Voxels(maskNode), a) = 1
                     /\ kwargs.resampledPixelSpacing[a] # maskNode.spacing[a]
                     /\ ret[2].spacing[a] = maskNode.spacing[a]
  /\ \E a \in Axes : /\ Ext(Voxels(maskNode), a) > 1
                     /\ kwargs.resampledPixelSpacing[a] # maskNode.spacing[a]
                     /\ ret[2].spacing[a] = kwargs.resampledPixelSpacing[a]

(* C18: whenever resampleImage resamples, the returned image and mask have *)
(* the same spacing, size, origin and direction, the direction is the      *)
(* input mask's also when the input image's differs, the mask is resampled *)
(* with nearest neighbour, and each output has the pixel type of its input. *)
C18_SharedOutputGrid ==
  Resampled =>
    /\ ret[1].spacing = ret[2].spacing
    /\ ret[1].size = ret[2].size
    /\ ret[1].origin = ret[2].origin
    /\ ret[1].direction = ret[2].direction
    /\ ret[2].direction = maskNode.direction
    /\ ret[2].interpolator = "sitkNearestNeighbor"
    /\ ret[1].pixelID = imageNode.pixelID
    /\ ret[2].pixelID = maskNode.pixelID

C18_Witness ==
  /\ Resampled
  /\ imageNode.direction # maskNode.direction
  /\ imageNode.pixelID # maskNode.pixelID
  /\ ret[1].direction = maskNode.direction
  /\ ret[1].pixelID = imageNode.pixelID

(* the interpolator is given by a name that is not one of the kinds of     *)
(* interpolation                                                           *)
UnsupportedName ==
  kwargs.interpolator.isString /\ kwargs.interpolator.value \notin InterpolatorEnums

(* C19: for every interpolator given as a name that does not denote a      *)
(* supported kind of interpolation, resampleImage logs a warning, uses the *)
(* B-spline interpolator for the image and completes the resampling; the   *)
(* name alone never makes the call fail.                                   *)
C19_UnknownInterpolatorFallsBack ==
  (NonNullInputs /\ ResamplingRequired /\ ~ROIInvalid /\ UnsupportedName) =>
    /\ ~raised
    /\ Logged("InterpolatorNotRecognized")
    /\ resampleCalls = 2
    /\ ret[1].interpolator = "sitkBSpline"

-----------------------------------------------------------------------------
(* the voxels of the requested label in the mask that the correction path  *)
(* of checkMask computes from the input mask                               *)
CorrectedVoxels == Voxels(ResampleToReference(imageNode, maskNode))

(* C20: checkMask verifies that the label is present in the mask whose     *)
(* statistics it uses before it reads the bounding box: on the correction  *)
(* path, if the label is not present in the corrected mask, checkMask      *)
(* reports it and returns a null bounding box.                             *)
C20_LabelCheckedInCorrectedMask ==
  ( /\ op = "checkMask"
    /\ resampleCalls = 1
    /\ ~Logged("BoundingBoxFailed")
    /\ CorrectedVoxels = {} ) =>
      /\ ~raised
      /\ ret[1] = None
      /\ Reported

-----------------------------------------------------------------------------
(* the ROI is accepted and nothing but the grid can make the call fail *)
AcceptedROI ==
  /\ NonNullInputs
  /\ ResamplingRequired
  /\ ~ROIInvalid
  /\ ~UnsupportedName

(* C21: whenever the ROI is accepted (0 <= lower, extent >= 1,             *)
(* lower + extent <= maskSize), for every spacing ratio and every          *)
(* padDistance >= 0 the clamped bounds of resampleImage satisfy            *)
(* 0 <= newLower <= newUpper on every axis, so the new grid has at least   *)
(* one voxel on every axis and the filter accepts its size.                *)
C21_BoundsOrdered ==
  AcceptedROI =>
    /\ \A a \in Axes : /\ 0 <= Lo(Voxels(maskNode), a)
                       /\ Ext(Voxels(maskNode), a) >= 1
                       /\ Lo(Voxels(maskNode), a) + Ext(Voxels(maskNode), a) <= maskNode.size[a]
                       /\ 0 <= NewLower(a)
                       /\ NewLower(a) <= NewUpper(a)
    /\ ~raised
    /\ resampleCalls = 2
    /\ \A a \in Axes : ret[1].size[a] >= 1 /\ ret[2].size[a] >= 1

(* both clamps act on one axis, which keeps the whole axis of the mask *)
C21_Witness ==
  /\ AcceptedROI
  /\ Resampled
  /\ kwargs.padDistance >= 1
  /\ \E a \in Axes :
       /\ FloorOf(Scaled(a, 2 * Lo(Voxels(maskNode), a) - 1, -kwargs.padDistance)) < 0
       /\ CeilOf(Scaled(a, 2 * (Lo(Voxels(maskNode), a) + Ext(Voxels(maskNode), a)) - 1,
                        kwargs.padDistance)) > NewUpper(a)
       /\ NewLower(a) = 0
       /\ ret[2].size[a] = NewUpper(a) + 1
====
